---- MODULE Spec2Model ----
(***************************************************************************)
(* State-machine model of custom_components/braviatv/coordinator.py:       *)
(* the BraviaTVCoordinator refresh cycle (_async_update_data and the three *)
(* async_update_* helpers), the source catalog (_sources_extend), the      *)
(* command-time resolver (async_source_find) and the command wrapper       *)
(* (catch_braviatv_errors).                                                *)
(*                                                                         *)
(* Text is a sequence of one-character strings; the three uri scheme words *)
(* ("extInput", "tv", "com.sony.dtv.") are single tokens of such a         *)
(* sequence.  A Python dict is a function whose DOMAIN is its key set, so  *)
(* an absent key and an empty value stay distinct.                         *)
(***************************************************************************)
EXTENDS Integers, Sequences, FiniteSets, TLC

\* ------------------------------------------------------------------ bounds
MaxInputs == 2      \* longest external-inputs answer of the rich device
MaxRun == 12        \* cap of the observer counter quietRun
MaxRepeats == 2     \* largest repeat count given to async_send_command

\* ---------------------------------------------------------------- text
NONE == <<"None">>          \* Python None in a text-valued field
NoneInt == -1               \* Python None in an int-valued field (values are >= 0)
EmptyDict == [k \in {} |-> NONE]

Truthy(x) == x # NONE /\ x # <<>>

Get(d, k) == IF k \in DOMAIN d THEN d[k] ELSE NONE

GetDefault(d, k, default) == IF k \in DOMAIN d THEN d[k] ELSE default

LowerChar(c) ==
    CASE c = "A" -> "a"
      [] c = "B" -> "b"
      [] OTHER -> c

\* str.lower()
Lower(s) == [i \in 1..Len(s) |-> LowerChar(s[i])]

\* code point of a character (the scheme tokens by their first letter)
Code(c) ==
    CASE c = "0" -> 48
      [] c = "5" -> 53
      [] c = ":" -> 58
      [] c = "A" -> 65
      [] c = "B" -> 66
      [] c = "a" -> 97
      [] c = "b" -> 98
      [] c = "com.sony.dtv." -> 99
      [] c = "extInput" -> 101
      [] c = "tv" -> 116
      [] OTHER -> 0

IsDigit(c) == c \in {"0", "5"}

DigitVal(c) == IF c = "5" THEN 5 ELSE 0

\* str.isnumeric()
IsNumeric(s) == s # NONE /\ Len(s) > 0 /\ \A i \in 1..Len(s) : IsDigit(s[i])

RECURSIVE IntOf(_)
\* int(s) of a string of digits
IntOf(s) ==
    IF s = <<>> THEN 0
    ELSE 10 * IntOf(SubSeq(s, 1, Len(s) - 1)) + DigitVal(s[Len(s)])

\* str.startswith(p)
StartsWith(s, p) == Len(s) >= Len(p) /\ SubSeq(s, 1, Len(p)) = p

\* q in t  (substring test)
Contains(t, q) ==
    \E i \in 0..(Len(t) - Len(q)) : SubSeq(t, i + 1, i + Len(q)) = q

RECURSIVE StrLess(_, _)
\* a < b  on str (lexicographic by code point)
StrLess(a, b) ==
    IF b = <<>> THEN FALSE
    ELSE IF a = <<>> THEN TRUE
    ELSE IF Code(Head(a)) # Code(Head(b)) THEN Code(Head(a)) < Code(Head(b))
    ELSE StrLess(Tail(a), Tail(b))

InSeq(x, s) == \E i \in 1..Len(s) : s[i] = x

\* ------------------------------------------------------- dict with order
\* source_map is a Python dict: a sequence of [uri, item] in insertion order.
HasKey(map, k) == \E i \in 1..Len(map) : map[i].uri = k

Lookup(map, k) == map[CHOOSE i \in 1..Len(map) : map[i].uri = k].item

\* map[k] = v : an existing key keeps its position, a new key is appended
DictSet(map, k, v) ==
    IF HasKey(map, k)
    THEN [i \in 1..Len(map) |-> IF map[i].uri = k THEN [uri |-> k, item |-> v] ELSE map[i]]
    ELSE Append(map, [uri |-> k, item |-> v])

\* ------------------------------------------------------------ uris, kinds
INPUT == "input"
APP == "app"
CHANNEL == "channel"

ExtA == <<"extInput", ":", "a">>
ExtB == <<"extInput", ":", "b">>
TvA == <<"tv", ":", "a">>
TvB == <<"tv", ":", "b">>
AppA == <<"com.sony.dtv.", "a">>
AppB == <<"com.sony.dtv.", "b">>

\* --------------------------------------------------------- _sources_extend
RECURSIVE InsertByTitle(_, _)
\* insert x behind every element whose key is <= x's key (sorted() is stable)
InsertByTitle(sorted, x) ==
    IF sorted = <<>> THEN <<x>>
    ELSE IF StrLess(GetDefault(x, "title", <<>>), GetDefault(Head(sorted), "title", <<>>))
         THEN <<x>> \o sorted
         ELSE <<Head(sorted)>> \o InsertByTitle(Tail(sorted), x)

RECURSIVE SortedByTitle(_)
\* sorted(sources, key=lambda d: d.get("title", ""))
SortedByTitle(sources) ==
    IF sources = <<>> THEN <<>>
    ELSE InsertByTitle(SortedByTitle(SubSeq(sources, 1, Len(sources) - 1)),
                       sources[Len(sources)])

ExtendTitleRaw(item, enable) == Get(item, "title")

\* the display title _sources_extend computes for an item
ExtendTitle(item, enable) ==
    IF enable /\ Truthy(Get(item, "label")) THEN Get(item, "label") ELSE Get(item, "title")

AddToListNoDedup(title, list, add_to_list) ==
    IF add_to_list THEN Append(list, title) ELSE list

\* if add_to_list and title not in self.source_list: append
AddToList(title, list, add_to_list) ==
    IF add_to_list /\ ~InSeq(title, list) THEN Append(list, title) ELSE list

RECURSIVE ExtendLoop(_, _, _, _, _, _)
ExtendLoop(map, list, sources, source_type, add_to_list, enable) ==
    IF sources = <<>> THEN [map |-> map, list |-> list]
    ELSE LET item == Head(sources)
             title == ExtendTitle(item, enable)
             uri == Get(item, "uri")
         IN IF ~Truthy(title) \/ ~Truthy(uri)
            THEN ExtendLoop(map, list, Tail(sources), source_type, add_to_list, enable)
            ELSE ExtendLoop(DictSet(map, uri, ("type" :> source_type) @@ item),
                            AddToList(title, list, add_to_list),
                            Tail(sources), source_type, add_to_list, enable)

SourcesExtend(map, list, sources, source_type, add_to_list, sort_by_title, enable) ==
    ExtendLoop(map, list,
               IF sort_by_title THEN SortedByTitle(sources) ELSE sources,
               source_type, add_to_list, enable)

\* ------------------------------------------------------------ the device
\* The BraviaClient is an external collaborator: every call either returns a
\* payload or raises one of pybravia's errors.  A device profile fixes which
\* answers it can give, so that each specification stays small:
\*   "reload"   every error kind, few payloads        (Spec)
\*   "catalog"  rich payloads, connection errors only (SpecCatalog, SpecResolver)
\*   "lean"     few payloads, connection errors only  (SpecCmd)
\*   "media"    rich volume and now-playing payloads  (SpecMedia)
ErrorKinds ==
    {"BraviaAuthError", "BraviaNotFound", "BraviaConnectionError",
     "BraviaConnectionTimeout", "BraviaTurnedOff", "BraviaError"}

Errors(p) == IF p = "reload" THEN ErrorKinds ELSE {"BraviaConnectionError"}

PowerAnswers == {"active", "standby"}

SystemInfoAnswers == {[model |-> <<"a">>]}

SeqUpTo(S, n) == UNION {[1..k -> S] : k \in 0..n}

I1 == [uri |-> ExtA, title |-> <<"a", "b">>]
I2 == [uri |-> ExtB, title |-> <<"b">>, label |-> <<"a", "b">>]
I3 == [uri |-> ExtA, title |-> <<"A">>, label |-> <<>>]
I4 == [uri |-> ExtB, label |-> <<"B", "a">>]
InputItems == {I1, I2, I3, I4}

A1 == [uri |-> AppA, title |-> <<"b">>, label |-> <<"B", "a">>]
A2 == [uri |-> AppB, title |-> <<"a">>]
A3 == [uri |-> AppB, title |-> <<"a">>, label |-> <<>>]

Ch1 == [uri |-> TvA, title |-> <<"a">>, label |-> <<"b">>, dispNum |-> <<"5">>]
Ch2 == [uri |-> TvB, title |-> <<"5">>, dispNum |-> <<"0", "5">>]

InputsAnswers(p) ==
    CASE p = "catalog" -> SeqUpTo(InputItems, MaxInputs)
      [] p = "reload" -> {<<>>, <<I1, I2>>}
      [] OTHER -> {<<I1, I2>>}

AppsAnswers(p) ==
    CASE p = "catalog" -> {<<>>, <<A1, A2>>}
      [] p = "media" -> {<<>>, <<A1, A2>>, <<A1, A3>>}
      [] OTHER -> {<<A1>>}

ChannelsAnswers(p) == IF p = "catalog" THEN {<<>>, <<Ch1, Ch2>>} ELSE {<<Ch1>>}

VolumeAnswers(p) ==
    CASE p = "reload" -> {[volume |-> 37, mute |-> TRUE, target |-> <<"a">>], [mute |-> TRUE]}
      [] p = "media" ->
           {[volume |-> 37, mute |-> TRUE, target |-> <<"a">>], [volume |-> 0],
            [volume |-> 100, mute |-> FALSE], [mute |-> TRUE, target |-> <<"b">>],
            EmptyDict}
      [] OTHER -> {[volume |-> 37]}

PExt == [uri |-> ExtB, title |-> <<"b">>]
PTv ==
    [uri |-> TvA, dispNum |-> <<"5">>, title |-> <<"a">>, programTitle |-> <<"B">>,
     startDateTime |-> <<"0">>, durationSec |-> 5]
PApp == [uri |-> AppA, title |-> <<"b">>, label |-> <<"a">>]

PAppB == [uri |-> AppB, title |-> <<"b">>, label |-> <<"a">>]
PAppBTitle == [uri |-> AppB, title |-> <<"b">>]
PAppBBare == [uri |-> AppB]
PNoUri == [title |-> <<"b">>, label |-> <<"a">>]

PlayingAnswers(p) ==
    CASE p = "catalog" -> {EmptyDict, PExt, PTv, PApp}
      [] p = "media" -> {EmptyDict, PTv, PApp, PAppB, PAppBTitle, PAppBBare, PNoUri}
      [] OTHER -> {EmptyDict, PTv}

\* seconds between the payload's start time and now
ElapsedAnswers == {5}

\* ------------------------------------------------------------------ state
VARIABLES
    profile,                    \* the device profile (fixed)
    enable_user_labels,         \* config option (fixed)
    system_info, source, source_list, source_map,
    media_title, media_channel, media_content_id, media_content_type,
    media_uri, media_duration, media_position, media_position_updated_at,
    volume_level, volume_target, volume_muted,
    is_on, connected, skipped_updates,
    pc,                         \* the await _async_update_data is suspended at
    last,                       \* how the last cycle ended (observer)
    snap0,                      \* the snapshot when the cycle started (observer)
    quietRun,                   \* cycles in a row skipped on BraviaNotFound (observer)
    inputsSeen,                 \* last answer of get_external_status (observer)
    seen,                       \* the answers this cycle has received (observer)
    built,                      \* async_update_sources has run to its end (observer)
    cmd,                        \* the command in flight, if any
    refresh_pending             \* a debounced refresh request is waiting

flagVars == <<is_on, connected, skipped_updates>>
catalogVars == <<source_list, source_map, built>>
volumeVars == <<volume_level, volume_target, volume_muted>>
playingVars ==
    <<source, media_title, media_channel, media_content_id, media_content_type,
      media_uri, media_duration, media_position, media_position_updated_at>>
configVars == <<profile, enable_user_labels>>
cmdVars == <<cmd, refresh_pending>>

vars ==
    <<profile, enable_user_labels, system_info, source, source_list, source_map,
      media_title, media_channel, media_content_id, media_content_type,
      media_uri, media_duration, media_position, media_position_updated_at,
      volume_level, volume_target, volume_muted,
      is_on, connected, skipped_updates, pc, last, snap0, quietRun, inputsSeen,
      seen, built, cmd, refresh_pending>>

\* every field of the coordinator that consumers read
Snapshot ==
    [connected |-> connected, is_on |-> is_on, skipped_updates |-> skipped_updates,
     system_info |-> system_info,
     volume_level |-> volume_level, volume_target |-> volume_target,
     volume_muted |-> volume_muted,
     source |-> source, media_title |-> media_title, media_channel |-> media_channel,
     media_content_id |-> media_content_id, media_content_type |-> media_content_type,
     media_uri |-> media_uri, media_duration |-> media_duration,
     media_position |-> media_position,
     media_position_updated_at |-> media_position_updated_at,
     source_list |-> source_list, source_map |-> source_map]

NoCommand ==
    [pc |-> "idle", name |-> "none", call |-> "none", arg |-> NONE, query |-> NONE,
     kind |-> "none", queue |-> <<>>, res |-> "none", out |-> "none", refreshes |-> 0]

\* no answer received yet
NoAnswer == [none |-> TRUE]
NothingSeen == [power |-> "none", volume |-> NoAnswer, playing |-> NoAnswer]

NoCycle == [outcome |-> "none", err |-> "none", at |-> "none", skipped |-> 0]
Running == [outcome |-> "running", err |-> "none", at |-> "none", skipped |-> 0]

\* BraviaTVCoordinator.__init__
Construct ==
    /\ system_info = EmptyDict
    /\ source = NONE
    /\ source_list = <<>>
    /\ source_map = <<>>
    /\ media_title = NONE
    /\ media_channel = NONE
    /\ media_content_id = NONE
    /\ media_content_type = "None"
    /\ media_uri = NONE
    /\ media_duration = NoneInt
    /\ media_position = NoneInt
    /\ media_position_updated_at = "None"
    /\ volume_level = <<>>
    /\ volume_target = NONE
    /\ volume_muted = FALSE
    /\ is_on = FALSE
    /\ connected = FALSE
    /\ skipped_updates = 0
    /\ pc = "idle"
    /\ last = NoCycle
    /\ snap0 = Snapshot
    /\ quietRun = 0
    /\ inputsSeen = <<>>
    /\ seen = NothingSeen
    /\ built = FALSE
    /\ cmd = NoCommand
    /\ refresh_pending = FALSE

Init ==
    /\ profile = "reload"
    /\ enable_user_labels = TRUE
    /\ Construct

InitCmd ==
    /\ profile = "lean"
    /\ enable_user_labels = TRUE
    /\ Construct

\* async_update_sources run to its end (lines 249-257)
BuildCatalog(inputs, apps, channels, enable) ==
    LET r1 == SourcesExtend(<<>>, <<>>, inputs, INPUT, TRUE, FALSE, enable)
        r2 == SourcesExtend(r1.map, r1.list, apps, APP, FALSE, TRUE, enable)
    IN SourcesExtend(r2.map, r2.list, channels, CHANNEL, FALSE, FALSE, enable)

\* The coordinator after a first cycle that built the catalog and then lost the
\* connection at the volume query: the states the resolver is exercised from.
InitResolver ==
    /\ profile = "catalog"
    /\ enable_user_labels \in BOOLEAN
    /\ \E inputs \in InputsAnswers("catalog"), apps \in AppsAnswers("catalog"),
          channels \in ChannelsAnswers("catalog"), info \in SystemInfoAnswers :
         LET r == BuildCatalog(inputs, apps, channels, enable_user_labels)
         IN /\ source_map = r.map
            /\ source_list = r.list
            /\ inputsSeen = inputs
            /\ system_info = info
    /\ source = NONE
    /\ media_title = NONE
    /\ media_channel = NONE
    /\ media_content_id = NONE
    /\ media_content_type = "None"
    /\ media_uri = NONE
    /\ media_duration = NoneInt
    /\ media_position = NoneInt
    /\ media_position_updated_at = "None"
    /\ volume_level = <<>>
    /\ volume_target = NONE
    /\ volume_muted = FALSE
    /\ is_on = FALSE
    /\ connected = FALSE
    /\ skipped_updates = 0
    /\ pc = "done"
    /\ last = [outcome |-> "returned", err |-> "BraviaConnectionError", at |-> "volume",
               skipped |-> 0]
    /\ snap0 = [Snapshot EXCEPT !.source_map = <<>>, !.source_list = <<>>,
                                !.system_info = EmptyDict]
    /\ quietRun = 0
    /\ seen = [NothingSeen EXCEPT !.power = "active"]
    /\ built = TRUE
    /\ cmd = NoCommand
    /\ refresh_pending = FALSE

InitCatalog ==
    /\ profile = "catalog"
    /\ enable_user_labels \in BOOLEAN
    /\ Construct

InitMedia ==
    /\ profile = "media"
    /\ enable_user_labels \in BOOLEAN
    /\ Construct

\* ------------------------------------------------- async_update_volume
VolumeFieldsTruthy(info) ==
    IF "volume" \in DOMAIN info /\ info.volume # 0
    THEN [level |-> <<info.volume, 100>>,
          muted |-> GetDefault(info, "mute", FALSE),
          target |-> Get(info, "target")]
    ELSE [level |-> volume_level, muted |-> volume_muted, target |-> volume_target]

\* the three volume fields after one answer of get_volume_info
VolumeFields(info) ==
    IF "volume" \in DOMAIN info
    THEN [level |-> <<info.volume, 100>>,          \* volume / 100, as a fraction
          muted |-> GetDefault(info, "mute", FALSE),
          target |-> Get(info, "target")]
    ELSE [level |-> volume_level, muted |-> volume_muted, target |-> volume_target]

\* ------------------------------------------------ async_update_playing
SmartTV == <<"Smart TV">>

Or(a, b) == IF Truthy(a) THEN a ELSE b

\* label of an extInput payload: the catalog's label, else the payload's
ExtLabel(info, map, enable) ==
    LET uri == Get(info, "uri")
        label == IF enable /\ HasKey(map, uri) THEN Get(Lookup(map, uri), "label") ELSE NONE
    IN IF ~Truthy(label) THEN Get(info, "label") ELSE label

\* label of any other payload: the payload's, overridden by the catalog's
OtherLabel(info, map, enable) ==
    LET uri == Get(info, "uri")
        label == Get(info, "label")
    IN IF enable /\ HasKey(map, uri)
       THEN GetDefault(Lookup(map, uri), "label", label)
       ELSE label

PlayingBaseStale(info, elapsed) ==
    LET hasStart == Truthy(Get(info, "startDateTime"))
    IN [media_title |-> Get(info, "title"),
        media_uri |-> Get(info, "uri"),
        media_duration |-> GetDefault(info, "durationSec", NoneInt),
        media_channel |-> media_channel,
        media_content_id |-> media_content_id,
        media_content_type |-> media_content_type,
        source |-> source,
        media_position |-> IF hasStart THEN elapsed ELSE NoneInt,
        media_position_updated_at |-> IF hasStart THEN "now" ELSE "None"]

\* lines 186-201: the fields read off the payload, the four resets, the position
PlayingBase(info, elapsed) ==
    LET hasStart == Truthy(Get(info, "startDateTime"))
    IN [media_title |-> Get(info, "title"),
        media_uri |-> Get(info, "uri"),
        media_duration |-> GetDefault(info, "durationSec", NoneInt),
        media_channel |-> NONE,
        media_content_id |-> NONE,
        media_content_type |-> "None",
        source |-> NONE,
        media_position |-> IF hasStart THEN elapsed ELSE NoneInt,
        media_position_updated_at |-> IF hasStart THEN "now" ELSE "None"]

\* the now-playing fields after one answer of get_playing_info
PlayingFields(info, elapsed, map, enable) ==
    LET uri == Get(info, "uri")
        base == PlayingBase(info, elapsed)
        withId == IF Truthy(uri) THEN [base EXCEPT !.media_content_id = uri] ELSE base
    IN IF DOMAIN info = {}
       THEN [base EXCEPT !.media_title = SmartTV, !.media_content_type = APP]
       ELSE IF Truthy(uri) /\ StartsWith(uri, <<"extInput">>)
       THEN LET label == ExtLabel(info, map, enable)
            IN IF Truthy(label)
               THEN [withId EXCEPT !.source = label, !.media_title = label]
               ELSE [withId EXCEPT !.source = Get(info, "title"),
                                   !.media_title = Get(info, "title")]
       ELSE IF Truthy(uri) /\ StartsWith(uri, <<"tv">>)
       THEN LET num == Get(info, "dispNum")
            IN [withId EXCEPT !.media_content_id = num,
                              !.media_title = Or(Get(info, "programTitle"), num),
                              !.media_channel = Or(Get(info, "title"), num),
                              !.media_content_type = CHANNEL]
       ELSE LET label == OtherLabel(info, map, enable)
            IN IF Truthy(label)
               THEN [withId EXCEPT !.source = label, !.media_title = label]
               ELSE IF Truthy(Get(info, "title"))
               THEN [withId EXCEPT !.source = Get(info, "title"),
                                   !.media_title = Get(info, "title")]
               ELSE withId

\* ------------------------------------------------- _async_update_data
BudgetLeftOffByOne(skipped) == skipped <= 10

\* if self.skipped_updates < 10
BudgetLeft(skipped) == skipped < 10

IsOffNoTurnedOff(e) == e \in {"BraviaConnectionError", "BraviaConnectionTimeout"}

\* except (BraviaConnectionError, BraviaConnectionTimeout, BraviaTurnedOff)
IsOff(e) ==
    e \in {"BraviaConnectionError", "BraviaConnectionTimeout", "BraviaTurnedOff"}

Bump(n) == IF n < MaxRun THEN n + 1 ELSE n

AfterErrorMarksOff(e, c, on, sk) ==
    IF e = "BraviaNotFound" /\ BudgetLeft(sk)
    THEN [connected |-> FALSE, is_on |-> on, skipped |-> sk + 1, outcome |-> "returned"]
    ELSE [connected |-> FALSE, is_on |-> FALSE, skipped |-> sk,
          outcome |-> IF IsOff(e) THEN "returned" ELSE "UpdateFailed"]

AfterErrorKeepsOn(e, c, on, sk) ==
    IF e = "BraviaNotFound"
    THEN IF BudgetLeft(sk)
         THEN [connected |-> FALSE, is_on |-> on, skipped |-> sk + 1, outcome |-> "returned"]
         ELSE [connected |-> c, is_on |-> on, skipped |-> sk, outcome |-> "UpdateFailed"]
    ELSE [connected |-> FALSE, is_on |-> on, skipped |-> sk,
          outcome |-> IF IsOff(e) THEN "returned" ELSE "UpdateFailed"]

\* the except clauses of _async_update_data (lines 161-175): the flags and the
\* way the cycle ends when error e meets flags c, on, sk
AfterError(e, c, on, sk) ==
    IF e = "BraviaNotFound"
    THEN IF BudgetLeft(sk)
         THEN [connected |-> FALSE, is_on |-> on, skipped |-> sk + 1, outcome |-> "returned"]
         ELSE [connected |-> c, is_on |-> on, skipped |-> sk, outcome |-> "UpdateFailed"]
    ELSE [connected |-> FALSE, is_on |-> FALSE, skipped |-> sk,
          outcome |-> IF IsOff(e) THEN "returned" ELSE "UpdateFailed"]

\* error e, raised by the call awaited at `at`, reaches the outer try
HandleError(e, at) ==
    LET r == AfterError(e, connected, is_on, skipped_updates)
    IN /\ pc' = "done"
       /\ connected' = r.connected
       /\ is_on' = r.is_on
       /\ skipped_updates' = r.skipped
       /\ last' = [outcome |-> r.outcome, err |-> e, at |-> at, skipped |-> skipped_updates]
       /\ quietRun' = IF e = "BraviaNotFound" /\ r.outcome = "returned"
                      THEN Bump(quietRun) ELSE 0

\* return / fall off the end of the try block
Return(at) ==
    /\ pc' = "done"
    /\ last' = [outcome |-> "returned", err |-> "none", at |-> at, skipped |-> 0]
    /\ quietRun' = 0

TickNoConnect ==
    /\ pc \in {"idle", "done"}
    /\ pc' = "power"
    /\ last' = Running
    /\ snap0' = Snapshot
    /\ refresh_pending' = FALSE
    /\ seen' = NothingSeen
    /\ UNCHANGED <<configVars, cmd, system_info, catalogVars, volumeVars, playingVars,
                   flagVars, quietRun, inputsSeen>>

\* The scheduler starts _async_update_data, on the SCAN_INTERVAL timer or for a
\* debounced request; the cycle that starts absorbs the waiting request.
\* That it starts none while one is running is Home Assistant's
\* DataUpdateCoordinator at work, taken as given here.
Tick ==
    /\ pc \in {"idle", "done"}
    /\ pc' = IF connected THEN "power" ELSE "connect"
    /\ last' = Running
    /\ snap0' = Snapshot
    /\ refresh_pending' = FALSE
    /\ seen' = NothingSeen
    /\ UNCHANGED <<configVars, cmd, system_info, catalogVars, volumeVars, playingVars,
                   flagVars, quietRun, inputsSeen>>

\* await self.client.connect(...): with psk or with pin, client id and nickname,
\* the same call as far as the coordinator's own state goes
Connect ==
    /\ pc = "connect"
    /\ \E r \in {"ok"} \cup Errors(profile) :
         IF r = "ok"
         THEN /\ connected' = TRUE
              /\ pc' = "power"
              /\ UNCHANGED <<is_on, skipped_updates, last, quietRun>>
         ELSE IF r = "BraviaAuthError"
         THEN /\ pc' = "done"
              /\ last' = [outcome |-> "ConfigEntryAuthFailed", err |-> r, at |-> "connect",
                          skipped |-> skipped_updates]
              /\ quietRun' = 0
              /\ UNCHANGED flagVars
         ELSE HandleError(r, "connect")
    /\ UNCHANGED <<configVars, cmdVars, system_info, catalogVars, volumeVars, playingVars,
                   snap0, inputsSeen, seen>>

ProceedNoEarlyExit(on, at) ==
    IF source_map = <<>>
    THEN /\ pc' = "inputs"
         /\ source_list' = <<>>
         /\ source_map' = <<>>
         /\ built' = FALSE
         /\ UNCHANGED <<last, quietRun>>
    ELSE /\ pc' = "volume"
         /\ UNCHANGED <<catalogVars, last, quietRun>>

ProceedAlwaysRebuild(on, at) ==
    IF ~on
    THEN Return(at) /\ UNCHANGED catalogVars
    ELSE /\ pc' = "inputs"
         /\ source_list' = <<>>
         /\ source_map' = <<>>
         /\ built' = FALSE
         /\ UNCHANGED <<last, quietRun>>

\* lines 153-157 and 249-250: what follows the system-info step
Proceed(on, at) ==
    IF ~on
    THEN Return(at) /\ UNCHANGED catalogVars
    ELSE IF source_map = <<>>
    THEN /\ pc' = "inputs"
         /\ source_list' = <<>>
         /\ source_map' = <<>>
         /\ built' = FALSE
         /\ UNCHANGED <<last, quietRun>>
    ELSE /\ pc' = "volume"
         /\ UNCHANGED <<catalogVars, last, quietRun>>

\* await self.client.get_power_status()
GetPowerStatus ==
    /\ pc = "power"
    /\ \/ \E status \in PowerAnswers :
            /\ is_on' = (status = "active")
            /\ skipped_updates' = 0
            /\ seen' = [seen EXCEPT !.power = status]
            /\ UNCHANGED connected
            /\ IF system_info = EmptyDict
               THEN pc' = "sysinfo" /\ UNCHANGED <<catalogVars, last, quietRun>>
               ELSE Proceed(status = "active", "power")
       \/ \E e \in Errors(profile) :
            HandleError(e, "power") /\ UNCHANGED <<catalogVars, seen>>
    /\ UNCHANGED <<configVars, cmdVars, system_info, volumeVars, playingVars, snap0, inputsSeen>>

\* await self.client.get_system_info()
GetSystemInfo ==
    /\ pc = "sysinfo"
    /\ \/ \E info \in SystemInfoAnswers :
            /\ system_info' = info
            /\ Proceed(is_on, "sysinfo")
            /\ UNCHANGED flagVars
       \/ \E e \in Errors(profile) :
            HandleError(e, "sysinfo") /\ UNCHANGED <<system_info, catalogVars>>
    /\ UNCHANGED <<configVars, cmdVars, volumeVars, playingVars, snap0, inputsSeen, seen>>

\* one await of async_update_sources and the _sources_extend behind it
CatalogStep(at, answers, source_type, add_to_list, sort_by_title, next) ==
    /\ pc = at
    /\ \/ \E sources \in answers :
            LET r == SourcesExtend(source_map, source_list, sources, source_type,
                                   add_to_list, sort_by_title, enable_user_labels)
            IN /\ source_map' = r.map
               /\ source_list' = r.list
               /\ built' = (next = "volume")
               /\ inputsSeen' = IF at = "inputs" THEN sources ELSE inputsSeen
               /\ pc' = next
               /\ UNCHANGED <<flagVars, last, quietRun>>
       \/ \E e \in Errors(profile) :
            HandleError(e, at) /\ UNCHANGED <<catalogVars, inputsSeen>>
    /\ UNCHANGED <<configVars, cmdVars, system_info, volumeVars, playingVars, snap0, seen>>

\* inputs = await self.client.get_external_status()
GetExternalStatus ==
    CatalogStep("inputs", InputsAnswers(profile), INPUT, TRUE, FALSE, "apps")

\* apps = await self.client.get_app_list()
GetAppList ==
    CatalogStep("apps", AppsAnswers(profile), APP, FALSE, TRUE, "channels")

\* channels = await self.client.get_content_list_all("tv")
GetContentListAll ==
    CatalogStep("channels", ChannelsAnswers(profile), CHANNEL, FALSE, FALSE, "volume")

\* await self.client.get_volume_info()
GetVolumeInfo ==
    /\ pc = "volume"
    /\ \/ \E info \in VolumeAnswers(profile) :
            LET v == VolumeFields(info)
            IN /\ volume_level' = v.level
               /\ volume_muted' = v.muted
               /\ volume_target' = v.target
               /\ seen' = [seen EXCEPT !.volume = info]
               /\ pc' = "playing"
               /\ UNCHANGED <<flagVars, last, quietRun>>
       \/ \E e \in Errors(profile) : HandleError(e, "volume") /\ UNCHANGED <<volumeVars, seen>>
    /\ UNCHANGED <<configVars, cmdVars, system_info, catalogVars, playingVars, snap0, inputsSeen>>

\* await self.client.get_playing_info()
GetPlayingInfo ==
    /\ pc = "playing"
    /\ \/ \E info \in PlayingAnswers(profile), elapsed \in ElapsedAnswers :
            LET f == PlayingFields(info, elapsed, source_map, enable_user_labels)
            IN /\ media_title' = f.media_title
               /\ media_uri' = f.media_uri
               /\ media_duration' = f.media_duration
               /\ media_channel' = f.media_channel
               /\ media_content_id' = f.media_content_id
               /\ media_content_type' = f.media_content_type
               /\ source' = f.source
               /\ media_position' = f.media_position
               /\ media_position_updated_at' = f.media_position_updated_at
               /\ seen' = [seen EXCEPT !.playing = info]
               /\ UNCHANGED flagVars
               /\ Return("playing")
       \/ \E e \in Errors(profile) : HandleError(e, "playing") /\ UNCHANGED <<playingVars, seen>>
    /\ UNCHANGED <<configVars, cmdVars, system_info, catalogVars, volumeVars, snap0, inputsSeen>>

\* --------------------------------------------------- async_source_find
SchemePrefixes == {<<"extInput", ":">>, <<"tv", ":">>, <<"com.sony.dtv.">>}

\* query.startswith(("extInput:", "tv:", "com.sony.dtv."))
HasSchemePrefix(query) == \E prefix \in SchemePrefixes : StartsWith(query, prefix)

\* the display title async_source_find compares the query with (lines 279-281)
FindTitle(item, enable) ==
    IF enable /\ Truthy(Get(item, "label")) THEN Get(item, "label") ELSE Get(item, "title")

Found(uri) == [found |-> TRUE, uri |-> uri]
NotFound == [found |-> FALSE, uri |-> NONE]

RECURSIVE FindLoopFirst(_, _, _, _, _)
FindLoopFirst(map, query, source_type, enable, coarse_uri) ==
    IF map = <<>>
    THEN IF Truthy(coarse_uri) THEN Found(coarse_uri) ELSE NotFound
    ELSE LET uri == Head(map).uri
             item == Head(map).item
             rest == Tail(map)
         IN IF item.type # source_type
            THEN FindLoopFirst(rest, query, source_type, enable, coarse_uri)
            ELSE IF source_type = CHANNEL /\ IsNumeric(query)
            THEN IF Truthy(Get(item, "dispNum")) /\ IntOf(query) = IntOf(Get(item, "dispNum"))
                 THEN Found(uri)
                 ELSE FindLoopFirst(rest, query, source_type, enable, coarse_uri)
            ELSE LET title == FindTitle(item, enable)
                 IN IF Lower(query) = Lower(title)
                    THEN Found(uri)
                    ELSE IF Contains(Lower(title), Lower(query)) /\ ~Truthy(coarse_uri)
                    THEN FindLoopFirst(rest, query, source_type, enable, uri)
                    ELSE FindLoopFirst(rest, query, source_type, enable, coarse_uri)

RECURSIVE FindLoopEager(_, _, _, _, _)
FindLoopEager(map, query, source_type, enable, coarse_uri) ==
    IF map = <<>>
    THEN NotFound
    ELSE LET uri == Head(map).uri
             item == Head(map).item
             rest == Tail(map)
         IN IF item.type # source_type
            THEN FindLoopEager(rest, query, source_type, enable, coarse_uri)
            ELSE IF source_type = CHANNEL /\ IsNumeric(query)
            THEN IF Truthy(Get(item, "dispNum")) /\ IntOf(query) = IntOf(Get(item, "dispNum"))
                 THEN Found(uri)
                 ELSE FindLoopEager(rest, query, source_type, enable, coarse_uri)
            ELSE IF Contains(Lower(FindTitle(item, enable)), Lower(query))
                 THEN Found(uri)
                 ELSE FindLoopEager(rest, query, source_type, enable, coarse_uri)

RECURSIVE FindLoop(_, _, _, _, _)
\* the for loop over self.source_map.items() and the lines after it (272-288)
FindLoop(map, query, source_type, enable, coarse_uri) ==
    IF map = <<>>
    THEN IF Truthy(coarse_uri) THEN Found(coarse_uri) ELSE NotFound
    ELSE LET uri == Head(map).uri
             item == Head(map).item
             rest == Tail(map)
         IN IF item.type # source_type
            THEN FindLoop(rest, query, source_type, enable, coarse_uri)
            ELSE IF source_type = CHANNEL /\ IsNumeric(query)
            THEN IF Truthy(Get(item, "dispNum")) /\ IntOf(query) = IntOf(Get(item, "dispNum"))
                 THEN Found(uri)
                 ELSE FindLoop(rest, query, source_type, enable, coarse_uri)
            ELSE LET title == FindTitle(item, enable)
                 IN IF Lower(query) = Lower(title)
                    THEN Found(uri)
                    ELSE IF Contains(Lower(title), Lower(query))
                    THEN FindLoop(rest, query, source_type, enable, uri)
                    ELSE FindLoop(rest, query, source_type, enable, coarse_uri)

\* async_source_find: the uri it starts, or not found (ValueError)
SourceFind(query, source_type, map, enable) ==
    IF HasSchemePrefix(query)
    THEN Found(query)
    ELSE FindLoop(map, query, source_type, enable, NONE)

\* async_source_start: the client call that starts uri
StartCall(source_type) == IF source_type = APP THEN "set_active_app" ELSE "set_play_content"

\* ------------------------------------------------ catch_braviatv_errors
cycleVars ==
    <<configVars, system_info, catalogVars, volumeVars, playingVars, flagVars,
      pc, last, snap0, quietRun, inputsSeen, seen>>

AfterCallRefreshInTry(res) ==
    [out |-> "returned", refreshes |-> IF res \in {"ok", "none"} THEN 1 ELSE 0]

\* the wrapper once func has returned or raised a BraviaError (res): the error
\* is logged, async_request_refresh is awaited, the wrapper returns
AfterCall(res) == [out |-> "returned", refreshes |-> 1]

\* the wrapper's last two lines
Finish(res) ==
    LET r == AfterCall(res)
    IN /\ cmd' = [cmd EXCEPT !.pc = "done", !.res = res, !.out = r.out,
                             !.refreshes = cmd.refreshes + r.refreshes]
       /\ refresh_pending' = (refresh_pending \/ r.refreshes > 0)

\* a wrapped command whose body is one client call
Simple(name, call, arg) ==
    /\ cmd.pc # "call"
    /\ cmd' = [NoCommand EXCEPT !.pc = "call", !.name = name, !.call = call, !.arg = arg]
    /\ UNCHANGED <<cycleVars, refresh_pending>>

\* a wrapped command whose body is async_source_find(query, source_type)
Find(name, query, source_type) ==
    LET r == SourceFind(query, source_type, source_map, enable_user_labels)
        c == [NoCommand EXCEPT !.name = name, !.query = query, !.kind = source_type]
    IN /\ cmd.pc # "call"
       /\ IF r.found
          THEN /\ cmd' = [c EXCEPT !.pc = "call", !.call = StartCall(source_type),
                                   !.arg = r.uri]
               /\ UNCHANGED refresh_pending
          ELSE \* raise ValueError: no BraviaError, the wrapper lets it through
               /\ cmd' = [c EXCEPT !.pc = "done", !.out = "ValueError"]
               /\ UNCHANGED refresh_pending
       /\ UNCHANGED cycleVars

VolumeArgs == {<<37, 100>>}
\* round(volume * 100), volume given as a fraction <<n, d>>
RoundTimes100(volume) == (2 * volume[1] * 100 + volume[2]) \div (2 * volume[2])

MediaTypeArgs == {APP, CHANNEL, "music"}

\* what a caller may ask the resolver for
Queries(p) ==
    IF p = "catalog"
    THEN {<<"a">>, <<"A", "b">>, <<"b">>, <<"B">>, <<"5">>, <<"0", "5">>, ExtB, TvA, AppA}
    ELSE {<<"a">>, ExtB}

async_turn_on == Simple("async_turn_on", "turn_on", NONE)
async_turn_off == Simple("async_turn_off", "turn_off", NONE)
async_set_volume_level ==
    \E volume \in VolumeArgs :
        Simple("async_set_volume_level", "volume_level", <<RoundTimes100(volume)>>)
async_volume_up == Simple("async_volume_up", "volume_up", NONE)
async_volume_down == Simple("async_volume_down", "volume_down", NONE)
async_volume_mute == \E mute \in BOOLEAN : Simple("async_volume_mute", "volume_mute", NONE)
async_media_play == Simple("async_media_play", "play", NONE)
async_media_pause == Simple("async_media_pause", "pause", NONE)
async_media_stop == Simple("async_media_stop", "stop", NONE)
async_media_next_track ==
    Simple("async_media_next_track",
           IF media_content_type = CHANNEL THEN "channel_up" ELSE "next_track", NONE)
async_media_previous_track ==
    Simple("async_media_previous_track",
           IF media_content_type = CHANNEL THEN "channel_down" ELSE "previous_track", NONE)
async_reboot_device == Simple("async_reboot_device", "reboot", NONE)
async_terminate_apps == Simple("async_terminate_apps", "terminate_apps", NONE)

async_play_media ==
    \E media_type \in MediaTypeArgs, media_id \in Queries(profile) :
        IF media_type \notin {APP, CHANNEL}
        THEN /\ cmd.pc # "call"
             /\ cmd' = [NoCommand EXCEPT !.name = "async_play_media", !.pc = "done",
                                         !.query = media_id, !.kind = media_type,
                                         !.out = "ValueError"]
             /\ UNCHANGED <<cycleVars, refresh_pending>>
        ELSE Find("async_play_media", media_id, media_type)

async_select_source ==
    \E query \in Queries(profile) : Find("async_select_source", query, INPUT)

CodeLists == {<<>>, <<<<"a">>>>, <<<<"a">>, <<"b">>>>}

RECURSIVE Repeat(_, _)
\* the codes in the order the two nested loops send them
Repeat(command, repeats) ==
    IF repeats = 0 THEN <<>> ELSE command \o Repeat(command, repeats - 1)

async_send_command ==
    \E command \in CodeLists, repeats \in 0..MaxRepeats :
        LET codes == Repeat(command, repeats)
        IN /\ cmd.pc # "call"
           /\ IF codes = <<>>
              THEN /\ cmd' = [NoCommand EXCEPT !.name = "async_send_command", !.pc = "done",
                                               !.out = AfterCall("none").out,
                                               !.refreshes = AfterCall("none").refreshes]
                   /\ refresh_pending' = TRUE
              ELSE /\ cmd' = [NoCommand EXCEPT !.name = "async_send_command", !.pc = "call",
                                               !.call = "send_command", !.arg = Head(codes),
                                               !.queue = Tail(codes)]
                   /\ UNCHANGED refresh_pending
           /\ UNCHANGED cycleVars

\* the client call a command awaits returns or raises
DeviceReturn ==
    /\ cmd.pc = "call"
    /\ \E r \in {"ok"} \cup ErrorKinds, response \in BOOLEAN :
         IF r = "ok" /\ cmd.call = "send_command" /\ ~response
         THEN /\ cmd' = [cmd EXCEPT !.call = "get_command_list"]
              /\ UNCHANGED refresh_pending
         ELSE IF r = "ok" /\ cmd.call \in {"send_command", "get_command_list"}
                          /\ cmd.queue # <<>>
         THEN /\ cmd' = [cmd EXCEPT !.call = "send_command", !.arg = Head(cmd.queue),
                                    !.queue = Tail(cmd.queue)]
              /\ UNCHANGED refresh_pending
         ELSE Finish(r)
    /\ UNCHANGED cycleVars

Command ==
    \/ async_turn_on
    \/ async_turn_off
    \/ async_set_volume_level
    \/ async_volume_up
    \/ async_volume_down
    \/ async_volume_mute
    \/ async_media_play
    \/ async_media_pause
    \/ async_media_stop
    \/ async_media_next_track
    \/ async_media_previous_track
    \/ async_play_media
    \/ async_select_source
    \/ async_send_command
    \/ async_reboot_device
    \/ async_terminate_apps
    \/ DeviceReturn

Next ==
    \/ Tick
    \/ Connect
    \/ GetPowerStatus
    \/ GetSystemInfo
    \/ GetExternalStatus
    \/ GetAppList
    \/ GetContentListAll
    \/ GetVolumeInfo
    \/ GetPlayingInfo

Spec == Init /\ [][Next]_vars

SpecCatalog == InitCatalog /\ [][Next]_vars

SpecMedia == InitMedia /\ [][Next]_vars

\* the timer fires every SCAN_INTERVAL and every device call returns or raises
SpecLive == Init /\ [][Next]_vars /\ WF_vars(Next)

\* the refresh cycle and the commands, interleaved at their awaits
NextCmd == Next \/ Command

SpecCmd == InitCmd /\ [][NextCmd]_vars

\* the two commands that go through async_source_find, on a built catalog
NextResolver == async_select_source \/ async_play_media \/ DeviceReturn

SpecResolver == InitResolver /\ [][NextResolver]_vars

\* ================================================================ claims
OffErrors == {"BraviaConnectionError", "BraviaConnectionTimeout", "BraviaTurnedOff"}

\* C1: skipped_updates is always in 0..10; a cycle whose transient not-found
\* error is caught with skipped_updates = 9 returns quietly with
\* skipped_updates = 10 and connected = false; one whose not-found error is
\* caught with skipped_updates = 10 ends in UpdateFailed and leaves it at 10.
C1_RetryBudget ==
    /\ skipped_updates \in 0..10
    /\ (pc = "done" /\ last.err = "BraviaNotFound" /\ last.skipped = 9)
         => (last.outcome = "returned" /\ skipped_updates = 10 /\ ~connected)
    /\ (pc = "done" /\ last.err = "BraviaNotFound" /\ last.skipped = 10)
         => (last.outcome = "UpdateFailed" /\ skipped_updates = 10)

C1_Witness ==
    /\ pc = "done"
    /\ last.err = "BraviaNotFound"
    /\ last.skipped = 10
    /\ last.outcome = "UpdateFailed"

\* C2 (as claimed): whichever device call raises the not-found error, no more
\* than 10 cycles in a row are skipped quietly on it.
C2_AtMostTenQuiet == quietRun <= 10

\* C3 (as claimed): a step that ends the cycle on an authentication error,
\* at connect or at any later query, ends it with ConfigEntryAuthFailed and
\* does not turn is_on to false.
C3_AuthMeansReauth ==
    [][(pc' = "done" /\ last'.err = "BraviaAuthError")
         => (last'.outcome = "ConfigEntryAuthFailed" /\ (is_on => is_on'))]_vars

\* C4: a cycle in which a connection error, a timeout or a turned-off signal
\* is raised by any device call returns normally with is_on = false and
\* connected = false.
C4_OffIsQuiet ==
    (pc = "done" /\ last.err \in OffErrors)
        => (last.outcome = "returned" /\ ~is_on /\ ~connected)

C4_Witness ==
    /\ pc = "done"
    /\ last.err = "BraviaTurnedOff"
    /\ last.at = "connect"
    /\ skipped_updates = 10
    /\ snap0.is_on

\* C5 (as claimed): a cycle that ends in UpdateFailed leaves every snapshot
\* field at the value it had when the cycle started.
C5_LastGoodSnapshot ==
    (pc = "done" /\ last.outcome = "UpdateFailed") => Snapshot = snap0

\* C5 (amended): a cycle that ends in UpdateFailed on an exhausted not-found
\* budget leaves every snapshot field but connected at its cycle-start value;
\* one that ends in UpdateFailed on another device error has is_on = false
\* and connected = false, and has changed nothing but these two flags when
\* the error came from connect or the power query.
C5_EscalationFrame ==
    (pc = "done" /\ last.outcome = "UpdateFailed")
        => IF last.err = "BraviaNotFound"
           THEN [Snapshot EXCEPT !.connected = snap0.connected] = snap0
           ELSE /\ ~is_on
                /\ ~connected
                /\ last.at \in {"connect", "power"}
                     => [Snapshot EXCEPT !.connected = snap0.connected,
                                         !.is_on = snap0.is_on] = snap0

C5_Witness ==
    /\ pc = "done"
    /\ last.outcome = "UpdateFailed"
    /\ last.err = "BraviaNotFound"
    /\ connected
    /\ ~snap0.connected
    /\ is_on

\* C6: a command step changes no snapshot field; no refresh is requested while
\* the device call is pending; and when the last device call of a command has
\* returned or raised a device-API error the command returns normally having
\* requested exactly one refresh.
C6_CommandContainment ==
    [][(cmd' # cmd)
         => /\ Snapshot' = Snapshot
            /\ (cmd'.pc = "call" => cmd'.refreshes = 0)
            /\ (cmd'.pc = "done" /\ cmd'.res # "none")
                 => (cmd'.out = "returned" /\ cmd'.refreshes = 1 /\ refresh_pending')]_vars

C6_Witness ==
    /\ cmd.pc = "done"
    /\ cmd.name = "async_select_source"
    /\ cmd.res = "BraviaNotFound"
    /\ cmd.out = "returned"
    /\ cmd.refreshes = 1
    /\ pc = "apps"

\* ---- the resolver's contract, stated on the catalog itself
Display(item) ==
    IF enable_user_labels /\ "label" \in DOMAIN item /\ item.label # <<>>
    THEN item.label
    ELSE Get(item, "title")

OfKind(kind) == {i \in 1..Len(source_map) : source_map[i].item.type = kind}

ExactAt(q, kind) ==
    {i \in OfKind(kind) : Lower(Display(source_map[i].item)) = Lower(q)}

SubstrAt(q, kind) ==
    {i \in OfKind(kind) : Contains(Lower(Display(source_map[i].item)), Lower(q))}

Min(S) == CHOOSE x \in S : \A y \in S : x <= y
Max(S) == CHOOSE x \in S : \A y \in S : x >= y

Prefixed(q) ==
    \/ Len(q) >= 2 /\ q[1] \in {"extInput", "tv"} /\ q[2] = ":"
    \/ Len(q) >= 1 /\ q[1] = "com.sony.dtv."

\* async_source_find has run for cmd.query and cmd.kind
ResolverRan ==
    /\ cmd.name \in {"async_select_source", "async_play_media"}
    /\ cmd.kind \in {INPUT, APP, CHANNEL}

Dispatched(uri) == cmd.call = StartCall(cmd.kind) /\ cmd.arg = uri

\* a lookup by display title: no scheme prefix, no numeric channel lookup
TitleLookup ==
    /\ ResolverRan
    /\ ~Prefixed(cmd.query)
    /\ ~(cmd.kind = CHANNEL /\ IsNumeric(cmd.query))

\* C7 (as claimed): with no exact match and two or more substring matches the
\* resolver dispatches to the first substring match in insertion order.
C7_FirstSubstringWins ==
    (/\ TitleLookup
     /\ ExactAt(cmd.query, cmd.kind) = {}
     /\ Cardinality(SubstrAt(cmd.query, cmd.kind)) >= 2)
        => Dispatched(source_map[Min(SubstrAt(cmd.query, cmd.kind))].uri)

\* C7 (amended): with no exact match and two or more substring matches the
\* resolver dispatches to the last substring match in insertion order.
C7_LastSubstringWins ==
    (/\ TitleLookup
     /\ ExactAt(cmd.query, cmd.kind) = {}
     /\ Cardinality(SubstrAt(cmd.query, cmd.kind)) >= 2)
        => Dispatched(source_map[Max(SubstrAt(cmd.query, cmd.kind))].uri)

C7_Witness ==
    /\ TitleLookup
    /\ ExactAt(cmd.query, cmd.kind) = {}
    /\ Cardinality(SubstrAt(cmd.query, cmd.kind)) >= 2
    /\ cmd.pc = "call"
    /\ cmd.arg = source_map[Max(SubstrAt(cmd.query, cmd.kind))].uri

\* C8: a title lookup with an exact match (ignoring case) dispatches to the
\* first exact match in insertion order, substring matches before it
\* notwithstanding; a query with a scheme prefix is dispatched as it is.
C8_ExactMatchFirst ==
    /\ (TitleLookup /\ ExactAt(cmd.query, cmd.kind) # {})
         => Dispatched(source_map[Min(ExactAt(cmd.query, cmd.kind))].uri)
    /\ (ResolverRan /\ Prefixed(cmd.query)) => Dispatched(cmd.query)

C8_Witness ==
    /\ TitleLookup
    /\ cmd.pc = "call"
    /\ ExactAt(cmd.query, cmd.kind) # {}
    /\ \E j \in SubstrAt(cmd.query, cmd.kind) : j < Min(ExactAt(cmd.query, cmd.kind))
    /\ Cardinality(ExactAt(cmd.query, cmd.kind)) >= 1
    /\ cmd.arg = source_map[Min(ExactAt(cmd.query, cmd.kind))].uri

\* C9: source_map holds one entry per uri; every element of source_list is
\* the display title of an INPUT item the external-inputs query returned; and
\* source_list holds no title twice.
C9_CatalogInvariant ==
    /\ \A i, j \in 1..Len(source_map) :
         i # j => source_map[i].uri # source_map[j].uri
    /\ \A k \in 1..Len(source_list) :
         \E n \in 1..Len(inputsSeen) : source_list[k] = Display(inputsSeen[n])
    /\ \A k, l \in 1..Len(source_list) : k # l => source_list[k] # source_list[l]

C9_Witness ==
    /\ pc = "done"
    /\ last.at = "playing"
    /\ enable_user_labels
    /\ inputsSeen = <<I1, I2>>
    /\ source_list = << <<"a", "b">> >>
    /\ OfKind(INPUT) # {}
    /\ OfKind(APP) # {}
    /\ OfKind(CHANNEL) # {}

\* ---- label override
Labelled(item) == enable_user_labels /\ "label" \in DOMAIN item /\ item.label # <<>>

\* the last cycle ran to its end and derived the now-playing fields for uri
PlayingDerivedFor(uri) ==
    /\ pc = "done"
    /\ last.at = "playing"
    /\ last.err = "none"
    /\ media_uri = uri

\* the resolver, asked for `label` among the entries of `kind`, dispatches to
\* an entry of that display title
ResolvesByLabel(label, kind) ==
    LET r == SourceFind(label, kind, source_map, enable_user_labels)
    IN /\ r.found
       /\ HasKey(source_map, r.uri)
       /\ Lower(Display(Lookup(source_map, r.uri))) = Lower(label)

\* C10 (as claimed): for a labelled catalog entry of any kind the catalog
\* build, the now-playing derivation for its uri and the resolver all use the
\* label as its display title.
C10_LabelEverywhere ==
    \A i \in 1..Len(source_map) :
        LET e == source_map[i].item
            uri == source_map[i].uri
        IN Labelled(e)
             => /\ (e.type = INPUT => InSeq(e.label, source_list))
                /\ (PlayingDerivedFor(uri) => media_title = e.label)
                /\ (~(e.type = CHANNEL /\ IsNumeric(e.label)) /\ ~Prefixed(e.label))
                     => ResolvesByLabel(e.label, e.type)

\* C10 (amended): for a labelled catalog entry the catalog build and the
\* resolver's title lookup use the label, and so does the now-playing
\* derivation (title and source) unless the uri starts with tv.
C10_LabelExceptTv ==
    \A i \in 1..Len(source_map) :
        LET e == source_map[i].item
            uri == source_map[i].uri
        IN Labelled(e)
             => /\ (e.type = INPUT => InSeq(e.label, source_list))
                /\ (PlayingDerivedFor(uri) /\ uri[1] # "tv")
                     => (media_title = e.label /\ source = e.label)
                /\ (~(e.type = CHANNEL /\ IsNumeric(e.label)) /\ ~Prefixed(e.label))
                     => ResolvesByLabel(e.label, e.type)

C10_Witness ==
    /\ PlayingDerivedFor(AppA)
    /\ HasKey(source_map, AppA)
    /\ Labelled(Lookup(source_map, AppA))
    /\ media_title = Lookup(source_map, AppA).label
    /\ media_title # PApp.label
    /\ \E i \in OfKind(INPUT) : Labelled(source_map[i].item)
    /\ \E i \in OfKind(CHANNEL) : Labelled(source_map[i].item)

\* ---- the refresh cycle seen through its answers
\* the last cycle ran to the end of async_update_playing
PlayingDone == pc = "done" /\ last.at = "playing" /\ last.err = "none"

CatalogQueries == {"inputs", "apps", "channels"}

\* C11: after a now-playing refresh that received an empty payload, whatever
\* the cycle before left in the snapshot, channel, content id and source are
\* unset, position and position timestamp are unset, the title is the fixed
\* home-screen label and the content type is APP.
C11_EmptyPayloadResets ==
    (PlayingDone /\ seen.playing = EmptyDict)
        => /\ media_channel = NONE
           /\ media_content_id = NONE
           /\ source = NONE
           /\ media_position = NoneInt
           /\ media_position_updated_at = "None"
           /\ media_title = SmartTV
           /\ media_content_type = APP

C11_Witness ==
    /\ PlayingDone
    /\ seen.playing = EmptyDict
    /\ snap0.media_channel # NONE
    /\ snap0.media_content_type = CHANNEL
    /\ snap0.media_position # NoneInt
    /\ media_channel = NONE
    /\ media_content_type = APP

\* C13 (as claimed): a cycle whose power query answers anything but "active"
\* returns normally with is_on = false and skipped_updates = 0, issues no
\* catalog, volume or now-playing query and leaves the catalog, the volume
\* fields, the now-playing fields and source unchanged.
C13_OffExitAlways ==
    seen.power = "standby"
        => /\ pc \notin CatalogQueries \cup {"volume", "playing"}
           /\ <<source_list, source_map>> = <<snap0.source_list, snap0.source_map>>
           /\ [Snapshot EXCEPT !.connected = snap0.connected, !.is_on = snap0.is_on,
                               !.skipped_updates = snap0.skipped_updates,
                               !.system_info = snap0.system_info] = snap0
           /\ pc = "done"
                => (last.outcome = "returned" /\ ~is_on /\ skipped_updates = 0)

\* C13 (amended): a cycle whose power query answers anything but "active"
\* issues no catalog, volume or now-playing query, leaves the catalog, the
\* volume fields, the now-playing fields and source unchanged and has
\* is_on = false; when no later call of the cycle (the system-info query)
\* raises, it returns normally with skipped_updates = 0.
C13_OffExit ==
    seen.power = "standby"
        => /\ pc \notin CatalogQueries \cup {"volume", "playing"}
           /\ ~is_on
           /\ <<source_list, source_map>> = <<snap0.source_list, snap0.source_map>>
           /\ [Snapshot EXCEPT !.connected = snap0.connected, !.is_on = snap0.is_on,
                               !.skipped_updates = snap0.skipped_updates,
                               !.system_info = snap0.system_info] = snap0
           /\ (pc = "done" /\ last.err = "none")
                => (last.outcome = "returned" /\ skipped_updates = 0)

C13_Witness ==
    /\ seen.power = "standby"
    /\ pc = "done"
    /\ last.err = "none"
    /\ last.at = "power"
    /\ snap0.is_on
    /\ snap0.source_map # <<>>
    /\ snap0.media_channel # NONE
    /\ snap0.volume_level # <<>>

\* C14: the three catalog queries are issued only in a cycle in which the
\* device is on and source_map was empty when the cycle reached them; a cycle
\* that starts with a non-empty source_map changes neither source_map nor
\* source_list.
C14_LazyCatalog ==
    /\ pc \in CatalogQueries => (is_on /\ seen.power = "active" /\ snap0.source_map = <<>>)
    /\ pc = "inputs" => source_map = <<>>
    /\ snap0.source_map # <<>>
         => (source_map = snap0.source_map /\ source_list = snap0.source_list)

C14_Witness ==
    /\ PlayingDone
    /\ seen.power = "active"
    /\ snap0.source_map # <<>>
    /\ source_map = snap0.source_map
    /\ built

\* C15: a volume answer without a volume value leaves level, muted and target
\* as they were, even when it carries mute or target; an answer with volume v
\* makes the level v/100, muted the answer's mute (false when absent) and
\* target the answer's target.
C15_VolumeRefresh ==
    [][(pc = "volume" /\ pc' = "playing")
         => LET info == seen'.volume
            IN IF "volume" \in DOMAIN info
               THEN /\ info.volume \in 0..100
                    /\ volume_level' = <<info.volume, 100>>
                    /\ volume_muted' = (IF "mute" \in DOMAIN info THEN info.mute ELSE FALSE)
                    /\ volume_target' = (IF "target" \in DOMAIN info THEN info.target ELSE NONE)
               ELSE /\ volume_level' = volume_level
                    /\ volume_muted' = volume_muted
                    /\ volume_target' = volume_target]_vars

C15_Witness ==
    /\ pc = "playing"
    /\ seen.volume = [mute |-> TRUE, target |-> <<"b">>]
    /\ volume_level = <<0, 100>>
    /\ volume_muted = FALSE
    /\ volume_target = NONE

\* ---- now-playing label of an app or other uri
\* the uri takes the last branch of async_update_playing
NeitherExtNorTv(uri) ==
    ~(Truthy(uri) /\ (StartsWith(uri, <<"extInput">>) \/ StartsWith(uri, <<"tv">>)))

\* the non-empty label the catalog holds for uri, if user labels are enabled
CatalogLabel(uri) ==
    IF /\ enable_user_labels
       /\ HasKey(source_map, uri)
       /\ Truthy(Get(Lookup(source_map, uri), "label"))
    THEN Get(Lookup(source_map, uri), "label")
    ELSE NONE

\* C16 (as claimed): for a non-empty payload whose uri starts with neither
\* extInput nor tv, the resolved label is the catalog's non-empty label for
\* the uri when user labels are enabled, and otherwise the payload's label;
\* title and source equal the resolved label when there is one, else the
\* payload title, else they stay unset.
C16_OtherLabel ==
    (/\ PlayingDone
     /\ seen.playing # EmptyDict
     /\ NeitherExtNorTv(Get(seen.playing, "uri")))
        => LET info == seen.playing
               label == Or(CatalogLabel(Get(info, "uri")), Get(info, "label"))
           IN IF Truthy(label)
              THEN media_title = label /\ source = label
              ELSE IF Truthy(Get(info, "title"))
              THEN media_title = info.title /\ source = info.title
              ELSE media_title = NONE /\ source = NONE

\* C17 (as claimed): at the end of every refresh cycle is_on = true implies
\* connected = true.
C17_OnImpliesConnected == pc = "done" => (is_on => connected)

\* C17 (amended): at the end of a refresh cycle is_on = true implies
\* connected = true unless the cycle ended on a not-found error, or ended on
\* an authentication failure at connect and had started on and disconnected.
C17_OnUnlessReloading ==
    (pc = "done" /\ is_on /\ ~connected)
        => \/ last.err = "BraviaNotFound"
           \/ /\ last.outcome = "ConfigEntryAuthFailed"
              /\ snap0.is_on
              /\ ~snap0.connected

C17_Witness ==
    /\ pc = "done"
    /\ is_on
    /\ ~connected
    /\ last.err = "BraviaNotFound"
    /\ last.outcome = "returned"
    /\ last.at = "volume"
    /\ snap0.connected

\* C18 (as claimed): at the end of every refresh cycle source_map is empty or
\* holds what a rebuild that ran through all three queries put there.
C18_NeverHalfBuilt == pc = "done" => (source_map = <<>> \/ built)

\* the device answers, and says it is on
Reachable == last.err = "none" /\ seen.power # "standby"

\* C19: a cycle in which every device call succeeds and the power status is
\* "active" returns normally with connected = true, is_on = true and
\* skipped_updates = 0, whatever state it started from; and when from some
\* point on the device always answers and says it is on, the coordinator is
\* eventually connected and on for good.
C19_Recovery ==
    /\ []((PlayingDone /\ seen.power = "active")
            => /\ last.outcome = "returned"
               /\ connected
               /\ is_on
               /\ skipped_updates = 0)
    /\ (<>[]Reachable => <>[](connected /\ is_on))

C19_Witness ==
    /\ PlayingDone
    /\ seen.power = "active"
    /\ snap0.skipped_updates = 10
    /\ ~snap0.connected
    /\ snap0.is_on
    /\ connected
    /\ skipped_updates = 0

\* C20 (as claimed): a source-selection or play-media command that scans the
\* catalog while a refresh cycle is suspended at a device call finds the
\* catalog empty or completely built.
C20_NoPartialScan ==
    [][(/\ cmd.pc # "call"
        /\ cmd' # cmd
        /\ cmd'.name \in {"async_select_source", "async_play_media"}
        /\ cmd'.kind \in {INPUT, APP, CHANNEL}
        /\ ~Prefixed(cmd'.query)
        /\ pc \notin {"idle", "done"})
         => (source_map = <<>> \/ built)]_vars

====
